---- MODULE Spec2Model ----
(***************************************************************************)
(* A model of chesslib/board.py (class Board) of "Simple Python Chess".    *)
(*                                                                         *)
(* Python values are represented as follows.                               *)
(*   str            a sequence of one-character strings: 'E2' is           *)
(*                  <<"E","2">>, so that upper(), lower(), split(), str()  *)
(*                  and int() are modelled by what they do                 *)
(*   None (square)  NoCoord, the value letter_notation returns out of      *)
(*                  bounds; it is no str, the empty str '' being <<>>      *)
(*   None (piece)   the record None                                        *)
(*   Piece          a record [abbreviation, color]                         *)
(*   Board (dict)   a function whose DOMAIN is the set of keys present;    *)
(*                  the instance attributes are the other fields of the    *)
(*                  record the methods take as "self"                      *)
(*   iteration      the order in which a dict hands out its keys is that   *)
(*                  of its hash table in CPython 2 and that of insertion   *)
(*                  from CPython 3.7 on, and a deep copy need not iterate  *)
(*                  as the dict it was made from.  A method whose answer   *)
(*                  depends on the order is the set of the answers some    *)
(*                  order gives; a call takes one of them.                 *)
(***************************************************************************)
EXTENDS Integers, Sequences, FiniteSets, TLC

(***************************************************************************)
(* Bounds of the model.                                                    *)
(***************************************************************************)
\* successful moves played in one game
MaxPly == 5

(***************************************************************************)
(* Python built-ins on strings.                                            *)
(***************************************************************************)
Range(s) == {s[i] : i \in 1..Len(s)}

LowerLetters == <<"a","b","c","d","e","f","g","h","i","j","k","l","m",
                  "n","o","p","q","r","s","t","u","v","w","x","y","z">>
UpperLetters == <<"A","B","C","D","E","F","G","H","I","J","K","L","M",
                  "N","O","P","Q","R","S","T","U","V","W","X","Y","Z">>
DigitChars == <<"0","1","2","3","4","5","6","7","8","9">>

LowerSet == Range(LowerLetters)
UpperSet == Range(UpperLetters)
DigitSet == Range(DigitChars)
RankDigits == {"1", "2", "3", "4", "5", "6", "7", "8"}

ToUpper == [ch \in Range(LowerLetters) |->
              UpperLetters[CHOOSE i \in 1..26 : LowerLetters[i] = ch]]
ToLower == [ch \in Range(UpperLetters) |->
              LowerLetters[CHOOSE i \in 1..26 : UpperLetters[i] = ch]]
DigitValue == [ch \in Range(DigitChars) |->
              (CHOOSE i \in 1..10 : DigitChars[i] = ch) - 1]

\* str.upper()
upper(s) == [i \in 1..Len(s) |->
               IF s[i] \in LowerSet THEN ToUpper[s[i]] ELSE s[i]]
\* str.lower()
lower(s) == [i \in 1..Len(s) |->
               IF s[i] \in UpperSet THEN ToLower[s[i]] ELSE s[i]]

\* str(n) for an int n
RECURSIVE str(_)
str(n) == IF n < 0 THEN <<"-">> \o str(0 - n)
          ELSE IF n < 10 THEN <<DigitChars[n + 1]>>
          ELSE str(n \div 10) \o <<DigitChars[(n % 10) + 1]>>

(***************************************************************************)
(* Class constants of Board.                                               *)
(***************************************************************************)
axis_y == <<"A","B","C","D","E","F","G","H">>
axis_x == <<1, 2, 3, 4, 5, 6, 7, 8>>

\* re.match(RANK_REGEX, coord) for RANK_REGEX = ^[A-Z][1-8]$, where $ matches
\* at the end of the string and before a newline that ends it
RANK_REGEX(coord) ==
    /\ \/ Len(coord) = 2
       \/ Len(coord) = 3 /\ coord[3] = "\n"
    /\ coord[1] \in UpperSet
    /\ coord[2] \in RankDigits

None == [abbreviation |-> "None", color |-> "None"]
KeyError == [abbreviation |-> "KeyError", color |-> "KeyError"]
NoCoord == <<"None">>

(***************************************************************************)
(* Coordinate System.                                                      *)
(***************************************************************************)
is_in_bounds(coord) ==
    IF coord[2] < 0 \/ coord[2] > 7 \/ coord[1] < 0 \/ coord[1] > 7
    THEN FALSE
    ELSE TRUE

\* (row, column), both zero-based  ->  'E2'
letter_notation(coord) ==
    IF ~is_in_bounds(coord) THEN NoCoord
    ELSE <<axis_y[coord[2] + 1]>> \o str(axis_x[coord[1] + 1])

\* 'E2' -> (row, column)
number_notation(coord) ==
    IF coord # NoCoord
    THEN <<DigitValue[coord[2]] - 1,
           (CHOOSE i \in 1..Len(axis_y) : axis_y[i] = coord[1]) - 1>>
    ELSE NoCoord

(***************************************************************************)
(* Board.__getitem__ for a str key: upper-cased, KeyError unless it        *)
(* matches RANK_REGEX, None when the dict has no such key.  The key None   *)
(* is looked up as it is.                                                  *)
(***************************************************************************)
getitem(b, coord) ==
    IF coord = NoCoord
    THEN IF NoCoord \in DOMAIN b THEN b[NoCoord] ELSE None
    ELSE LET c == upper(coord) IN
         IF ~RANK_REGEX(c) THEN KeyError
         ELSE IF c \in DOMAIN b THEN b[c] ELSE None

\* Board.__getitem__ for a tuple key (row, column): the key looked up is its
\* letter notation, None out of bounds
getitem_tuple(b, coord) ==
    LET c == letter_notation(coord)
    IN  IF c \in DOMAIN b THEN b[c] ELSE None

get_enemy(color) == IF color = "white" THEN "black" ELSE "white"

(***************************************************************************)
(* Piece Catalog (module pieces): piece construction from a letter of the  *)
(* serialized form, and the pseudo-legal destinations of each kind.  No    *)
(* castling, en passant or promotion.                                      *)
(***************************************************************************)
PieceLetters == {"p", "n", "b", "r", "q", "k"}

\* pieces.piece(letter): the abbreviation keeps the case of the serialized
\* form, upper case for white and lower case for black
piece(letter) ==
    IF letter \in PieceLetters
    THEN [abbreviation |-> letter, color |-> "black"]
    ELSE IF letter \in UpperSet /\ ToLower[letter] \in PieceLetters
    THEN [abbreviation |-> letter, color |-> "white"]
    ELSE KeyError

kind(p) == IF p.abbreviation \in UpperSet
           THEN ToLower[p.abbreviation] ELSE p.abbreviation

orth == << <<-1, 0>>, <<0, -1>>, <<0, 1>>, <<1, 0>> >>
diag == << <<-1, -1>>, <<-1, 1>>, <<1, -1>>, <<1, 1>> >>
knight_deltas == << <<-2, -1>>, <<-2, 1>>, <<-1, -2>>, <<-1, 2>>,
                    <<1, -2>>, <<1, 2>>, <<2, -1>>, <<2, 1>> >>

\* the squares of one direction, up to the first collision
RECURSIVE slide(_, _, _, _, _, _)
slide(b, color, from, d, step, distance) ==
    LET dest == <<from[1] + step * d[1], from[2] + step * d[2]>> IN
    IF step > distance \/ ~is_in_bounds(dest) THEN <<>>
    ELSE LET occ == getitem(b, letter_notation(dest)) IN
         IF occ = None
         THEN <<letter_notation(dest)>>
                  \o slide(b, color, from, d, step + 1, distance)
         ELSE IF occ.color = color THEN <<>>
         ELSE <<letter_notation(dest)>>

RECURSIVE slides(_, _, _, _, _)
slides(b, color, from, directions, distance) ==
    IF directions = <<>> THEN <<>>
    ELSE slide(b, color, from, Head(directions), 1, distance)
             \o slides(b, color, from, Tail(directions), distance)

SelectInBounds(coords) == SelectSeq(coords, is_in_bounds)

Notations(coords) == [i \in 1..Len(coords) |-> letter_notation(coords[i])]

pawn_moves(b, color, from) ==
    LET homerow == IF color = "white" THEN 1 ELSE 6
        direction == IF color = "white" THEN 1 ELSE -1
        forward == <<from[1] + direction, from[2]>>
        double_forward == <<forward[1] + direction, forward[2]>>
        free(c) == getitem(b, letter_notation(c)) = None
        attack(a) == <<from[1] + direction, from[2] + a>>
        attacked(a) ==
            /\ is_in_bounds(attack(a))
            /\ getitem(b, letter_notation(attack(a))).color = get_enemy(color)
    IN  (IF free(forward)
         THEN <<forward>> \o (IF from[1] = homerow /\ free(double_forward)
                              THEN <<double_forward>> ELSE <<>>)
         ELSE <<>>)
        \o (IF attacked(-1) THEN <<attack(-1)>> ELSE <<>>)
        \o (IF attacked(1) THEN <<attack(1)>> ELSE <<>>)

knight_moves(b, color, from) ==
    LET dest(i) == <<from[1] + knight_deltas[i][1],
                     from[2] + knight_deltas[i][2]>>
        all == [i \in 1..Len(knight_deltas) |-> dest(i)]
        ok(c) == ~is_in_bounds(c)
                   \/ getitem(b, letter_notation(c)).color # color
    IN  SelectSeq(all, ok)

\* Piece.possible_moves(position): a list of squares in letter notation
possible_moves(b, position) ==
    LET p == getitem(b, position)
        from == number_notation(upper(position))
        k == kind(p)
    IN  IF k = "p"
        THEN Notations(SelectInBounds(pawn_moves(b, p.color, from)))
        ELSE IF k = "n"
        THEN Notations(SelectInBounds(knight_moves(b, p.color, from)))
        ELSE IF k = "b" THEN slides(b, p.color, from, diag, 8)
        ELSE IF k = "r" THEN slides(b, p.color, from, orth, 8)
        ELSE IF k = "q" THEN slides(b, p.color, from, diag \o orth, 8)
        ELSE slides(b, p.color, from, diag \o orth, 1)

(***************************************************************************)
(* State Codec: Board.load and Board.export.                               *)
(***************************************************************************)
FEN_STARTING == <<
    "r", "n", "b", "q", "k", "b", "n", "r", "/", "p", "p", "p", "p", "p", "p", "p",
    "p", "/", "8", "/", "8", "/", "8", "/", "8", "/", "P", "P", "P", "P", "P", "P",
    "P", "P", "/", "R", "N", "B", "Q", "K", "B", "N", "R", " ", "w", " ", "K", "Q",
    "k", "q", " ", "-", " ", "0", " ", "1" >>

\* str.split(sep)
RECURSIVE split(_, _)
split(s, sep) ==
    IF \A i \in 1..Len(s) : s[i] # sep THEN <<s>>
    ELSE LET i == CHOOSE j \in 1..Len(s) :
                      s[j] = sep /\ \A k \in 1..(j - 1) : s[k] # sep
         IN  <<SubSeq(s, 1, i - 1)>> \o split(SubSeq(s, i + 1, Len(s)), sep)

\* "".join(parts), splitting the list in halves
RECURSIVE concat(_, _, _)
concat(parts, lo, hi) ==
    IF lo > hi THEN <<>>
    ELSE IF lo = hi THEN parts[lo]
    ELSE LET mid == (lo + hi) \div 2
         IN  concat(parts, lo, mid) \o concat(parts, mid + 1, hi)

Flatten(parts) == concat(parts, 1, Len(parts))

\* ' ' * n
spaces(n) == [i \in 1..n |-> " "]

\* re.compile(r'\d').sub(expand, s): every digit becomes that many blanks
expand(s) ==
    Flatten([i \in 1..Len(s) |->
               IF s[i] \in DigitSet THEN spaces(DigitValue[s[i]])
               ELSE <<s[i]>>])

\* the characters str.isspace holds for: blank, \t, \n, vertical tab, form
\* feed, \r
Whitespace == {" ", "\t", "\n", "", "\f", "\r"}

\* str.strip(), as int() applies it to its argument
strip(s) ==
    LET inner == {i \in 1..Len(s) : s[i] \notin Whitespace}
    IN  IF inner = {} THEN <<>>
        ELSE SubSeq(s, CHOOSE i \in inner : \A j \in inner : i <= j,
                       CHOOSE i \in inner : \A j \in inner : i >= j)

\* the digits of the argument of int(): Python 2 skips white space before
\* an optional sign, between the sign and the digits, and after the digits
int_digits(s) ==
    LET t == strip(s)
    IN  IF t # <<>> /\ Head(t) \in {"-", "+"} THEN strip(Tail(t)) ELSE t

\* int(s) succeeds: at least one digit, and digits only
int_ok(s) ==
    LET d == int_digits(s)
    IN  d # <<>> /\ \A i \in 1..Len(d) : d[i] \in DigitSet

RECURSIVE digits_value(_)
digits_value(d) ==
    IF d = <<>> THEN 0
    ELSE 10 * digits_value(SubSeq(d, 1, Len(d) - 1)) + DigitValue[d[Len(d)]]

int(s) == IF Head(strip(s)) = "-" THEN 0 - digits_value(int_digits(s))
          ELSE digits_value(int_digits(s))

\* dict item assignment and deletion
setitem(b, coord, p) == (coord :> p) @@ b
delitem(b, coord) == [c \in DOMAIN b \ {coord} |-> b[c]]

EmptyDict == [c \in {} |-> None]

\* the (coordinate, letter) pairs of the piece field, in the order in which
\* load places them: rows top rank first, blanks skipped
RECURSIVE row_placements(_, _, _)
row_placements(row, x, y) ==
    IF y >= Len(row) THEN <<>>
    ELSE (IF row[y + 1] = " " THEN <<>>
          ELSE << <<letter_notation(<<7 - x, y>>), row[y + 1]>> >>)
         \o row_placements(row, x, y + 1)

RECURSIVE placements(_, _)
placements(rows, x) ==
    IF x >= Len(rows) THEN <<>>
    ELSE row_placements(rows[x + 1], x, 0) \o placements(rows, x + 1)

\* self[coord] = pieces.piece(letter) for each placement, up to the first
\* letter pieces.piece rejects; a later placement on the same key replaces
\* an earlier one
place_all(todo) ==
    LET bad == {i \in 1..Len(todo) : piece(todo[i][2]) = KeyError}
        n == IF bad = {} THEN Len(todo)
             ELSE (CHOOSE i \in bad : \A j \in bad : i <= j) - 1
        final(c) == CHOOSE i \in 1..n :
                        /\ todo[i][1] = c
                        /\ \A j \in (i + 1)..n : todo[j][1] # c
    IN  [board |-> [c \in {todo[i][1] : i \in 1..n} |->
                      piece(todo[final(c)][2])],
         raised |-> IF bad = {} THEN "none" ELSE "KeyError"]

\* Board.load(fen): the board it leaves and the exception it raises, if any
load(self, fen) ==
    LET fields == split(fen, " ")
        rows == split(expand(fields[1]), "/")
        placed == place_all(placements(rows, 0))
        s0 == [self EXCEPT !.board = placed.board]
        s1 == [s0 EXCEPT !.player_turn =
                  IF fields[2] = <<"w">> THEN "white" ELSE "black"]
        s2 == IF Len(fields) >= 3 THEN [s1 EXCEPT !.castling = fields[3]]
              ELSE s1
        s3 == IF Len(fields) >= 4 THEN [s2 EXCEPT !.en_passant = fields[4]]
              ELSE s2
        s4 == [s3 EXCEPT !.halfmove_clock = int(fields[5])]
        s5 == [s4 EXCEPT !.fullmove_number = int(fields[6])]
    IN  IF placed.raised # "none" THEN [self |-> s0, raised |-> placed.raised]
        ELSE IF Len(fields) < 2 THEN [self |-> s0, raised |-> "IndexError"]
        ELSE IF Len(fields) < 3 THEN [self |-> s1, raised |-> "IndexError"]
        ELSE IF Len(fields) < 4 THEN [self |-> s2, raised |-> "IndexError"]
        ELSE IF Len(fields) < 5 THEN [self |-> s3, raised |-> "IndexError"]
        ELSE IF ~int_ok(fields[5]) THEN [self |-> s3, raised |-> "ValueError"]
        ELSE IF Len(fields) < 6 THEN [self |-> s4, raised |-> "IndexError"]
        ELSE IF ~int_ok(fields[6]) THEN [self |-> s4, raised |-> "ValueError"]
        ELSE [self |-> s5, raised |-> "none"]

\* replace_spaces: groupby over the characters, a run of blanks becomes its
\* length and any other run is kept
replace_spaces(row) ==
    LET runlength(i) == CHOOSE n \in 1..(Len(row) - i + 1) :
                            /\ \A k \in i..(i + n - 1) : row[k] = " "
                            /\ (i + n > Len(row) \/ row[i + n] # " ")
    IN  Flatten([i \in 1..Len(row) |->
                   IF row[i] # " " THEN <<row[i]>>
                   ELSE IF i > 1 /\ row[i - 1] = " " THEN <<>>
                   ELSE str(runlength(i))])

\* the squares of rank `number`, files A to H, followed by "/"
export_rank(b, number) ==
    [y \in 1..Len(axis_y) |->
       LET p == getitem(b, <<axis_y[y]>> \o str(number))
       IN  IF p # None THEN p.abbreviation ELSE " "] \o <<"/">>

\* export_squares with the ranks in ascending order
export_squares_ascending(b) ==
    Flatten([k \in 1..Len(axis_x) |-> export_rank(b, axis_x[k])])

\* ranks 8 down to 1
export_squares(b) ==
    Flatten([k \in 1..Len(axis_x) |->
               export_rank(b, axis_x[Len(axis_x) + 1 - k])])

RECURSIVE join(_, _)
join(sep, parts) ==
    IF Len(parts) = 0 THEN <<>>
    ELSE IF Len(parts) = 1 THEN parts[1]
    ELSE parts[1] \o sep \o join(sep, Tail(parts))

\* the first character of the active color
turn_letter(player_turn) == IF player_turn = "white" THEN <<"w">> ELSE <<"b">>

\* Board.export()
export(self) ==
    LET squares == export_squares(self.board)
        result == replace_spaces(SubSeq(squares, 1, Len(squares) - 1))
    IN  result \o <<" ">> \o join(<<" ">>, << turn_letter(self.player_turn),
                                           self.castling,
                                           self.en_passant,
                                           str(self.halfmove_clock),
                                           str(self.fullmove_number) >>)

(***************************************************************************)
(* Board: move execution, legality and check detection.  "self" is the     *)
(* record of the dict contents (board) and the attributes.                 *)
(***************************************************************************)
\* _do_move leaving the piece on its origin as well
_do_move_origin_kept(self, p1, p2) ==
    [self EXCEPT !.board = setitem(self.board, p2, getitem(self.board, p1))]

\* Board._do_move(p1, p2): move a piece without validation
_do_move(self, p1, p2) ==
    LET moved == getitem(self.board, p1)
    IN  [self EXCEPT !.board = setitem(delitem(self.board, p1), p2, moved)]

\* _finish_move with the turn left to the mover
_finish_move_turn_kept(self, moved, dest, p2) ==
    LET fullmove == IF moved.color = "black"
                    THEN self.fullmove_number + 1 ELSE self.fullmove_number
        abbr == IF moved.abbreviation = "P" THEN <<>>
                ELSE <<moved.abbreviation>>
        clock == IF moved.abbreviation = "P" \/ dest # None THEN 0
                 ELSE self.halfmove_clock + 1
        movetext == IF dest = None THEN abbr \o lower(p2)
                    ELSE abbr \o <<"x">> \o lower(p2)
    IN  [self EXCEPT !.fullmove_number = fullmove,
                     !.halfmove_clock = clock,
                     !.player_turn = moved.color,
                     !.history = Append(self.history, movetext)]

\* _finish_move counting the full move after white's move
_finish_move_counts_white(self, moved, dest, p2) ==
    LET fullmove == IF moved.color = "white"
                    THEN self.fullmove_number + 1 ELSE self.fullmove_number
        abbr == IF moved.abbreviation = "P" THEN <<>>
                ELSE <<moved.abbreviation>>
        clock == IF moved.abbreviation = "P" \/ dest # None THEN 0
                 ELSE self.halfmove_clock + 1
        movetext == IF dest = None THEN abbr \o lower(p2)
                    ELSE abbr \o <<"x">> \o lower(p2)
    IN  [self EXCEPT !.fullmove_number = fullmove,
                     !.halfmove_clock = clock,
                     !.player_turn = get_enemy(moved.color),
                     !.history = Append(self.history, movetext)]

\* Board._finish_move(piece, dest, p2): next turn, counters, move text
_finish_move(self, moved, dest, p2) ==
    LET enemy == get_enemy(moved.color)
        fullmove == IF moved.color = "black"
                    THEN self.fullmove_number + 1 ELSE self.fullmove_number
        clock1 == self.halfmove_clock + 1
        abbr == IF moved.abbreviation = "P" THEN <<>>
                ELSE <<moved.abbreviation>>
        clock2 == IF moved.abbreviation = "P" THEN 0 ELSE clock1
        movetext == IF dest = None THEN abbr \o lower(p2)
                    ELSE abbr \o <<"x">> \o lower(p2)
        clock3 == IF dest = None THEN clock2 ELSE 0
    IN  [self EXCEPT !.fullmove_number = fullmove,
                     !.halfmove_clock = clock3,
                     !.player_turn = enemy,
                     !.history = Append(self.history, movetext)]

\* the test of the color at the head of all_possible_moves,
\* all_legal_side_moves, get_king and is_in_check
color_raises(color) ==
    IF color \notin {"black", "white"} THEN "InvalidColor" ELSE "none"

\* the keys for which self[key] raises KeyError
bad_keys(self) ==
    {k \in DOMAIN self.board : getitem(self.board, k) = KeyError}

\* all_possible_moves up to its answer: self[coord] is evaluated for every
\* key
all_possible_moves_raises(self, color) ==
    IF color_raises(color) # "none" THEN color_raises(color)
    ELSE IF bad_keys(self) # {} THEN "KeyError"
    ELSE "none"

\* Board.all_possible_moves(color): the destinations of every piece of
\* `color`, not checked for check.  The list is in dict iteration order; its
\* callers only test membership, so it is kept as a set.
all_possible_moves(self, color) ==
    UNION { Range(possible_moves(self.board, coord)) :
              coord \in {c \in DOMAIN self.board :
                           getitem(self.board, c).color = color} }

is_king(p) == p # None /\ kind(p) = "k"

\* Board.get_king_position(color): the first key, in the order the dict
\* iterates in, that holds a king of `color`, and None when there is no
\* such king: the positions it can return, one for each king of `color`
get_king_position(self, color) ==
    LET kings == {pos \in DOMAIN self.board :
                    /\ is_king(getitem(self.board, pos))
                    /\ getitem(self.board, pos).color = color}
    IN  IF kings = {} THEN {NoCoord} ELSE kings

\* Board.get_king(color): the pieces it can return
get_king(self, color) ==
    {getitem(self.board, pos) : pos \in get_king_position(self, color)}

\* is_in_check up to its answer
is_in_check_raises(self, color) ==
    IF color_raises(color) # "none" THEN color_raises(color)
    ELSE IF bad_keys(self) # {} THEN "KeyError"
    ELSE "none"

\* Board.is_in_check(color): the king is among the occupants of the squares
\* the enemy can move to.  `in` compares the pieces as objects: the occupant
\* of a square is the king when the square is the key that holds the king;
\* with no king, `king` is None and is found on every empty square.  The
\* answers it can give, one for each position get_king_position can return.
is_in_check(self, color) ==
    LET enemy == get_enemy(color)
        moves == all_possible_moves(self, enemy)
    IN  {IF getitem(self.board, pos) = None
         THEN None \in {getitem(self.board, m) : m \in moves}
         ELSE (IF pos = NoCoord THEN pos ELSE upper(pos))
                  \in {upper(m) : m \in moves} :
            pos \in get_king_position(self, color)}

\* copy.deepcopy(self): a board of its own, with the same contents
deepcopy(self) == self

\* simulation with the move made on the live board itself
simulation_on_live_board(self, p1, p2) ==
    LET tmp == _do_move(self, p1, p2)
    IN  [self |-> tmp, tmp |-> tmp,
         ret |-> is_in_check(tmp, getitem(self.board, p1).color)]

\* the body of is_in_check_after_move: the live board it leaves, the
\* temporary board it moved on, and the answers it can give
simulation(self, p1, p2) ==
    LET tmp == _do_move(deepcopy(self), p1, p2)
    IN  [self |-> self, tmp |-> tmp,
         ret |-> is_in_check(tmp, getitem(self.board, p1).color)]

\* is_in_check_after_move answering that every move is safe
is_in_check_after_move_never(self, p1, p2) == {FALSE}

\* Board.is_in_check_after_move(p1, p2): on a deep copy; the answers it can
\* give
is_in_check_after_move(self, p1, p2) == simulation(self, p1, p2).ret

\* all_legal_piece_moves without the filter on check
all_legal_piece_moves_unfiltered(self, coord) ==
    {possible_moves(self.board, coord)}

\* Board.all_legal_piece_moves(piece): pool.map(add_move, possible moves);
\* add_move returns the move when it is safe and None otherwise.  Each call
\* of add_move works on a deep copy of its own: the lists it can return, one
\* for each way the answers of is_in_check_after_move can fall.
all_legal_piece_moves(self, coord) ==
    LET possible_piece_moves == possible_moves(self.board, coord)
    IN  UNION {
          { [i \in 1..Len(answers) |->
               IF i \in unsafe \/ answers[i] = {TRUE}
               THEN NoCoord ELSE possible_piece_moves[i]] :
              unsafe \in SUBSET {i \in 1..Len(answers) :
                                   answers[i] = {TRUE, FALSE}} } :
          answers \in
            { [i \in 1..Len(possible_piece_moves) |->
                 is_in_check_after_move(self, coord,
                                        possible_piece_moves[i])] \o <<>> } }

\* all_legal_side_moves up to its answer
all_legal_side_moves_raises(self, color) == color_raises(color)

\* Board.all_legal_side_moves(color): add_move is handed to the worker
\* processes of a multiprocessing.Pool with apply_async and nothing waits
\* for them; the dict returned is the caller's own, which no worker can
\* write to
all_legal_side_moves(self, color) == EmptyDict

\* move_raises without the test of the turn
move_raises_any_turn(self, p1, p2) ==
    LET moved == getitem(self.board, p1)
        dest == getitem(self.board, p2)
    IN  IF p1 = NoCoord \/ p2 = NoCoord THEN {"AttributeError"}
        ELSE IF moved = KeyError \/ dest = KeyError THEN {"KeyError"}
        ELSE IF moved = None THEN {"AttributeError"}
        ELSE {IF p2 \notin Range(legal_moves) THEN "InvalidMove" ELSE "none" :
                legal_moves \in all_legal_piece_moves(self, p1)}

\* Board.move(p1, p2), up to the first change of the board: the exceptions
\* it can raise, "none" when the move is carried out.  None has no upper();
\* self[p1] and self[p2] raise KeyError for a str that is no square.
move_raises(self, p1, p2) ==
    LET moved == getitem(self.board, p1)
        dest == getitem(self.board, p2)
    IN  IF p1 = NoCoord \/ p2 = NoCoord THEN {"AttributeError"}
        ELSE IF moved = KeyError \/ dest = KeyError THEN {"KeyError"}
        ELSE IF moved = None THEN {"AttributeError"}
        ELSE IF self.player_turn # moved.color THEN {"NotYourTurn"}
        ELSE {IF p2 \notin Range(legal_moves) THEN "InvalidMove" ELSE "none" :
                legal_moves \in all_legal_piece_moves(self, p1)}

\* move storing the check status of the side that moved
move_flags_mover(self, p1u, p2u) ==
    LET p1 == upper(p1u)
        p2 == upper(p2u)
        moved == getitem(self.board, p1)
        dest == getitem(self.board, p2)
        done == _finish_move(_do_move(self, p1, p2), moved, dest, p2)
    IN  UNION {
          IF raised # "none" THEN {[self |-> self, raised |-> raised]}
          ELSE {[self |-> [done EXCEPT !.in_check =
                             IF checked THEN <<moved.color, TRUE>>
                             ELSE <<"", FALSE>>],
                 raised |-> "none"] :
                  checked \in is_in_check(done, moved.color)} :
          raised \in move_raises(self, p1, p2) }

\* Board.move(p1, p2): the boards it can leave, each with the exception
\* raised
move(self, p1u, p2u) ==
    LET p1 == upper(p1u)
        p2 == upper(p2u)
        moved == getitem(self.board, p1)
        dest == getitem(self.board, p2)
        enemy == get_enemy(moved.color)
        done == _finish_move(_do_move(self, p1, p2), moved, dest, p2)
    IN  UNION {
          IF raised # "none" THEN {[self |-> self, raised |-> raised]}
          ELSE {[self |-> [done EXCEPT !.in_check =
                             IF checked THEN <<enemy, TRUE>>
                             ELSE <<"", FALSE>>],
                 raised |-> "none"] :
                  checked \in is_in_check(done, enemy)} :
          raised \in move_raises(self, p1, p2) }

\* evaluate_board reporting mate for a side in check whatever its moves
evaluate_board_no_escape_test(self) ==
    IF self.in_check[2]
    THEN [self |-> [self EXCEPT !.in_mate = <<self.in_check[1], TRUE>>],
          ret |-> self.in_check[1] \o " is in checkmate!"]
    ELSE [self |-> self, ret |-> "None"]

\* Board.evaluate_board(): the board it leaves and the value it returns
\* ("None" stands for the implicit return)
evaluate_board(self) ==
    IF self.in_check[2]
    THEN LET side_in_check == self.in_check[1]
             side_legal_moves == all_legal_side_moves(self, side_in_check)
             flagged == [self EXCEPT !.in_mate = <<side_in_check, TRUE>>]
         IN  IF DOMAIN side_legal_moves = {}
             THEN [self |-> [flagged EXCEPT !.in_mate = <<"", FALSE>>],
                   ret |-> ""]
             ELSE IF flagged.in_mate[2]
             THEN [self |-> flagged,
                   ret |-> side_in_check \o " is in checkmate!"]
             ELSE [self |-> flagged, ret |-> "None"]
    ELSE [self |-> self, ret |-> "None"]

(***************************************************************************)
(* The state machine: one Board, the calls made on it, and what the last   *)
(* call did.                                                               *)
(***************************************************************************)
VARIABLES board, player_turn, castling, en_passant, halfmove_clock,
          fullmove_number, history, in_check, in_mate, last

vars == <<board, player_turn, castling, en_passant, halfmove_clock,
          fullmove_number, history, in_check, in_mate, last>>

Self == [board |-> board, player_turn |-> player_turn, castling |-> castling,
         en_passant |-> en_passant, halfmove_clock |-> halfmove_clock,
         fullmove_number |-> fullmove_number, history |-> history,
         in_check |-> in_check, in_mate |-> in_mate]

Becomes(s) ==
    /\ board' = s.board
    /\ player_turn' = s.player_turn
    /\ castling' = s.castling
    /\ en_passant' = s.en_passant
    /\ halfmove_clock' = s.halfmove_clock
    /\ fullmove_number' = s.fullmove_number
    /\ history' = s.history
    /\ in_check' = s.in_check
    /\ in_mate' = s.in_mate

\* the class attributes, before __init__ runs load
ClassAttributes ==
    [board |-> EmptyDict, player_turn |-> "None", castling |-> <<"-">>,
     en_passant |-> <<"-">>, halfmove_clock |-> 0, fullmove_number |-> 1,
     history |-> <<>>, in_check |-> <<"", FALSE>>, in_mate |-> <<"", FALSE>>]

Sq(file, rank) == <<file, rank>>

\* the calls of move the model makes
MoveInputs == {
    <<Sq("e","2"), Sq("e","4")>>, <<Sq("F","2"), Sq("F","3")>>,
    <<Sq("G","2"), Sq("G","4")>>, <<Sq("G","2"), Sq("G","3")>>,
    <<Sq("E","1"), Sq("F","2")>>, <<Sq("E","4"), Sq("D","5")>>,
    <<Sq("E","7"), Sq("E","5")>>, <<Sq("D","7"), Sq("D","5")>>,
    <<Sq("D","8"), Sq("H","4")>>, <<Sq("D","8"), Sq("D","5")>>,
    <<Sq("D","5"), Sq("E","4")>>, <<Sq("E","9"), Sq("E","4")>>,
    <<Sq("E","2"), NoCoord>>, <<Sq("E","2") \o <<"\n">>, Sq("E","4")>> }

NoCall == [op |-> "init", p1 |-> NoCoord, p2 |-> NoCoord, arg |-> NoCoord,
           coord |-> NoCoord, color |-> "None", moves |-> <<>>,
           raised |-> "none", ret |-> "None"]

\* Board(): __init__ loads FEN_STARTING over the class attributes
Init ==
    \E s \in {load(ClassAttributes, FEN_STARTING).self} :
        /\ board = s.board
        /\ player_turn = s.player_turn
        /\ castling = s.castling
        /\ en_passant = s.en_passant
        /\ halfmove_clock = s.halfmove_clock
        /\ fullmove_number = s.fullmove_number
        /\ history = s.history
        /\ in_check = s.in_check
        /\ in_mate = s.in_mate
        /\ last = NoCall

\* a call of move(p1, p2)
Move(p1, p2) ==
    \E r \in move(Self, p1, p2) :
        /\ r.raised = "none" => Len(history) < MaxPly
        /\ Becomes(r.self)
        /\ last' = [NoCall EXCEPT !.op = "move", !.p1 = p1, !.p2 = p2,
                                  !.raised = r.raised]

\* a call of evaluate_board()
Evaluate ==
    \E r \in {evaluate_board(Self)} :
        /\ Becomes(r.self)
        /\ last' = [NoCall EXCEPT !.op = "evaluate_board", !.ret = r.ret]

Next ==
    \/ \E m \in MoveInputs : Move(m[1], m[2])
    \/ Evaluate

Spec == Init /\ [][Next]_vars

(***************************************************************************)
(* A game resumed from a save: chess.py builds the Board from the text of  *)
(* state.fen when that file exists.  The position saved here is the one    *)
(* the program reaches from the starting position with 1. f3 e5 followed   *)
(* by four round trips of both king's knights (Nh3 Nf6, Ng1 Ng8), where    *)
(* the halfmove clock stands at 9.  The state is saved and restored, with  *)
(* load(export()), in every position of the games played from there and    *)
(* from the starting position.                                             *)
(***************************************************************************)
SavedFEN == <<
    "r", "n", "b", "q", "k", "b", "n", "r", "/", "p", "p", "p", "p", "1", "p", "p",
    "p", "/", "8", "/", "4", "p", "3", "/", "8", "/", "5", "P", "2", "/", "P", "P",
    "P", "P", "P", "1", "P", "P", "/", "R", "N", "B", "Q", "K", "B", "N", "R", " ",
    "w", " ", "K", "Q", "k", "q", " ", "-", " ", "9", " ", "6" >>

\* Board(fen)
InitSaved ==
    \E s \in {load(ClassAttributes, SavedFEN).self} :
        /\ board = s.board
        /\ player_turn = s.player_turn
        /\ castling = s.castling
        /\ en_passant = s.en_passant
        /\ halfmove_clock = s.halfmove_clock
        /\ fullmove_number = s.fullmove_number
        /\ history = s.history
        /\ in_check = s.in_check
        /\ in_mate = s.in_mate
        /\ last = NoCall

\* a save and restore of the state: load(export())
Reload ==
    \E r \in {load(Self, export(Self))} :
        /\ Becomes(r.self)
        /\ last' = [NoCall EXCEPT !.op = "load", !.raised = r.raised]

\* the moves of the games that are saved and restored
SavedInputs == {
    <<Sq("e","2"), Sq("e","4")>>, <<Sq("F","2"), Sq("F","3")>>,
    <<Sq("G","1"), Sq("H","3")>>, <<Sq("E","1"), Sq("F","2")>>,
    <<Sq("E","7"), Sq("E","5")>>, <<Sq("D","7"), Sq("D","5")>>,
    <<Sq("D","8"), Sq("H","4")>> }

NextSaved ==
    \/ \E m \in SavedInputs : Move(m[1], m[2])
    \/ Reload

\* a new game, or the saved one
SpecSaved == (Init \/ InitSaved) /\ [][NextSaved]_vars

(***************************************************************************)
(* The legality queries as calls of their own: the gui asks for            *)
(* all_legal_piece_moves of the square clicked, which asks                 *)
(* is_in_check_after_move for each destination.                            *)
(***************************************************************************)
\* is_in_check_after_move up to its answer: tmp[p1] raises KeyError for a
\* string that is no square, del tmp[p1] for a key the dict does not hold;
\* tmp[p2] = piece stores p2 as it is, and is_in_check then raises KeyError
\* on a key that is no square
is_in_check_after_move_raises(self, p1, p2) ==
    IF getitem(self.board, p1) = KeyError THEN "KeyError"
    ELSE IF p1 \notin DOMAIN self.board THEN "KeyError"
    ELSE IF getitem(self.board, p1) = None THEN "AttributeError"
    ELSE is_in_check_raises(_do_move(deepcopy(self), p1, p2),
                            getitem(self.board, p1).color)

\* all_legal_piece_moves up to its answer
all_legal_piece_moves_raises(self, coord) ==
    IF getitem(self.board, coord) = KeyError THEN "KeyError"
    ELSE IF getitem(self.board, coord) = None THEN "AttributeError"
    ELSE IF \E m \in Range(possible_moves(self.board, coord)) :
                is_in_check_after_move_raises(self, coord, m) # "none"
    THEN "KeyError"
    ELSE "none"

\* the live board after add_move was called for each of `todo` in turn
RECURSIVE after_simulations(_, _, _)
after_simulations(self, coord, todo) ==
    IF todo = <<>> THEN self
    ELSE after_simulations(simulation(self, coord, Head(todo)).self,
                           coord, Tail(todo))

SimulationInputs == {
    <<Sq("E","1"), Sq("F","2")>>, <<Sq("G","2"), Sq("G","4")>>,
    <<Sq("D","8"), Sq("H","4")>>, <<Sq("E","4"), Sq("D","5")>>,
    <<Sq("e","2"), Sq("e","4")>>, <<Sq("E","9"), Sq("E","4")>>,
    <<Sq("G","2"), Sq("G","9")>> }

PieceInputs == {Sq("E","1"), Sq("G","2"), Sq("D","8"), Sq("E","4"),
                Sq("E","9")}

\* a call of is_in_check_after_move(p1, p2)
IsInCheckAfterMove(p1, p2) ==
    \E raised \in {is_in_check_after_move_raises(Self, p1, p2)} :
        IF raised # "none"
        THEN /\ UNCHANGED <<board, player_turn, castling, en_passant,
                            halfmove_clock, fullmove_number, history,
                            in_check, in_mate>>
             /\ last' = [NoCall EXCEPT
                           !.op = "is_in_check_after_move",
                           !.p1 = p1, !.p2 = p2, !.raised = raised]
        ELSE \E r \in {simulation(Self, p1, p2)} :
                /\ Becomes(r.self)
                /\ \E ret \in r.ret :
                      last' = [NoCall EXCEPT
                                 !.op = "is_in_check_after_move",
                                 !.p1 = p1, !.p2 = p2,
                                 !.ret = IF ret THEN "True" ELSE "False"]

\* a call of all_legal_piece_moves(coord)
AllLegalPieceMoves(coord) ==
    \E raised \in {all_legal_piece_moves_raises(Self, coord)} :
        IF raised # "none"
        THEN /\ UNCHANGED <<board, player_turn, castling, en_passant,
                            halfmove_clock, fullmove_number, history,
                            in_check, in_mate>>
             /\ last' = [NoCall EXCEPT
                           !.op = "all_legal_piece_moves", !.p1 = coord,
                           !.raised = raised]
        ELSE \E s \in {after_simulations(Self, coord,
                                         possible_moves(board, coord))} :
                /\ Becomes(s)
                /\ \E moves \in all_legal_piece_moves(Self, coord) :
                      last' = [NoCall EXCEPT
                                 !.op = "all_legal_piece_moves",
                                 !.p1 = coord, !.moves = moves]

ColorInputs == {"white", "black", "green"}

\* a call of all_possible_moves(color)
AllPossibleMoves(color) ==
    /\ UNCHANGED <<board, player_turn, castling, en_passant,
                   halfmove_clock, fullmove_number, history, in_check,
                   in_mate>>
    /\ \E raised \in {all_possible_moves_raises(Self, color)} :
          last' = [NoCall EXCEPT
                  !.op = "all_possible_moves", !.color = color,
                  !.raised = raised,
                  !.ret = IF raised # "none"
                          THEN "None"
                          ELSE IF all_possible_moves(Self, color) = {}
                          THEN "[]" ELSE "list"]

\* a call of all_legal_side_moves(color)
AllLegalSideMoves(color) ==
    /\ UNCHANGED <<board, player_turn, castling, en_passant,
                   halfmove_clock, fullmove_number, history, in_check,
                   in_mate>>
    /\ \E raised \in {all_legal_side_moves_raises(Self, color)} :
          last' = [NoCall EXCEPT
                  !.op = "all_legal_side_moves", !.color = color,
                  !.raised = raised,
                  !.ret = IF raised # "none"
                          THEN "None"
                          ELSE IF DOMAIN all_legal_side_moves(Self, color) = {}
                          THEN "{}" ELSE "dict"]

\* the moves of the games in which the queries are made
GameInputs == {
    <<Sq("e","2"), Sq("e","4")>>, <<Sq("F","2"), Sq("F","3")>>,
    <<Sq("G","2"), Sq("G","3")>>, <<Sq("E","7"), Sq("E","5")>>,
    <<Sq("D","7"), Sq("D","5")>>, <<Sq("D","8"), Sq("H","4")>> }

NextQuery ==
    \/ \E m \in GameInputs : Move(m[1], m[2])
    \/ \E m \in SimulationInputs : IsInCheckAfterMove(m[1], m[2])
    \/ \E coord \in PieceInputs : AllLegalPieceMoves(coord)
    \/ \E color \in ColorInputs : AllPossibleMoves(color)
    \/ \E color \in ColorInputs : AllLegalSideMoves(color)

SpecQuery == Init /\ [][NextQuery]_vars

(***************************************************************************)
(* Loading a text over a live board, building another Board, and the       *)
(* queries on the king.  The gui's reset calls load on the board in use;   *)
(* chess.py builds the Board from the text of a file.                      *)
(***************************************************************************)
\* load is called within the first MaxLoadPly moves of a game, Board within
\* the first MaxBoardPly, and the gui's reset after MinResetPly moves or more
MaxLoadPly == 0
MaxBoardPly == 1
MinResetPly == 4

\* the starting position less its last field
FiveFields == SubSeq(FEN_STARTING, 1, Len(FEN_STARTING) - 2)
\* the starting position, its halfmove clock being the letter x
BadClock == SubSeq(FEN_STARTING, 1, Len(FEN_STARTING) - 3) \o <<"x", " ", "1">>
\* the starting position less the letter of the black king: a top rank of
\* seven files
ShortRank == SubSeq(FEN_STARTING, 1, 4)
                 \o SubSeq(FEN_STARTING, 6, Len(FEN_STARTING))
\* the starting position, its first letter being x
BadLetter == <<"x">> \o Tail(FEN_STARTING)
\* the starting position without the black king
NoBlackKing == [FEN_STARTING EXCEPT ![5] = "1"]
\* the starting position as read from a file, with the end of its line
WithNewline == FEN_STARTING \o <<"\n">>

\* the starting position, its halfmove clock being a sign, a tab and a digit
SignedClock == SubSeq(FEN_STARTING, 1, Len(FEN_STARTING) - 3)
                   \o <<"-", "\t", "1", " ", "1">>
\* two white kings, the one on A8 attacked by the rook on A5
TwoWhiteKings == <<
    "K", "K", "6", "/", "8", "/", "8", "/", "r", "7", "/", "8", "/", "8", "/",
    "7", "P", "/", "4", "k", "3", " ", "w", " ", "-", " ", "-", " ", "0", " ",
    "1" >>

LoadInputs == {FiveFields, BadClock, ShortRank, BadLetter, NoBlackKing,
               WithNewline, SignedClock, TwoWhiteKings}

BoardInputs == {FEN_STARTING, BadClock}

\* a call of load(fen) on the board in use
Load(fen) ==
    \E r \in {load(Self, fen)} :
        /\ Len(history) <= MaxLoadPly
        /\ Becomes(r.self)
        /\ last' = [NoCall EXCEPT !.op = "load", !.arg = fen,
                                  !.raised = r.raised]

\* Board(fen): a new instance, which takes the place of the board in use
\* unless __init__ raises.  Its attributes are the class attributes until
\* load assigns them; history is the list of the class, which
\* _finish_move appends to in place.
NewBoard(fen) ==
    \E r \in {load([ClassAttributes EXCEPT !.history = history], fen)} :
        /\ Len(history) <= MaxBoardPly
        /\ IF r.raised = "none" THEN Becomes(r.self)
           ELSE UNCHANGED <<board, player_turn, castling, en_passant,
                            halfmove_clock, fullmove_number, history,
                            in_check, in_mate>>
        /\ last' = [NoCall EXCEPT !.op = "Board", !.arg = fen,
                                  !.raised = r.raised]

\* a call of get_king_position(color): arg is the position returned,
\* NoCoord for None
GetKingPosition(color) ==
    /\ UNCHANGED <<board, player_turn, castling, en_passant,
                   halfmove_clock, fullmove_number, history, in_check,
                   in_mate>>
    /\ \E pos \in get_king_position(Self, color) :
          last' = [NoCall EXCEPT !.op = "get_king_position", !.color = color,
                                 !.arg = pos,
                                 !.ret = IF pos = NoCoord THEN "None"
                                         ELSE "position"]

\* a call of is_in_check(color)
IsInCheck(color) ==
    /\ UNCHANGED <<board, player_turn, castling, en_passant,
                   halfmove_clock, fullmove_number, history, in_check,
                   in_mate>>
    /\ \E raised \in {is_in_check_raises(Self, color)} :
          \E ret \in IF raised # "none" THEN {"None"}
                     ELSE {IF checked THEN "True" ELSE "False" :
                             checked \in is_in_check(Self, color)} :
              last' = [NoCall EXCEPT !.op = "is_in_check", !.color = color,
                                     !.raised = raised, !.ret = ret]

\* BoardGuiTk.reset(): the gui clears the check flag of the board in use and
\* loads the starting position over it
Reset ==
    \E r \in {load([Self EXCEPT !.in_check = <<"", FALSE>>], FEN_STARTING)} :
        /\ Len(history) >= MinResetPly
        /\ Becomes(r.self)
        /\ last' = [NoCall EXCEPT !.op = "reset", !.raised = r.raised]

\* the moves of the games in which the loads are made
LoadGameInputs == {
    <<Sq("e","2"), Sq("e","4")>>, <<Sq("F","2"), Sq("F","3")>>,
    <<Sq("E","7"), Sq("E","5")>>, <<Sq("D","8"), Sq("H","4")>>,
    <<Sq("H","2"), Sq("H","3")>> }

NextLoad ==
    \/ \E m \in LoadGameInputs : Move(m[1], m[2])
    \/ \E fen \in LoadInputs : Load(fen)
    \/ \E fen \in BoardInputs : NewBoard(fen)
    \/ \E color \in ColorInputs : GetKingPosition(color)
    \/ \E color \in ColorInputs : IsInCheck(color)
    \/ Reset

SpecLoad == Init /\ [][NextLoad]_vars

(***************************************************************************)
(* The conversions of the Coordinate System, called on the pairs within    *)
(* CoordMargin of the board and on the names of the squares.               *)
(***************************************************************************)
CoordMargin == 1

CoordInputs == ((0 - CoordMargin)..(7 + CoordMargin))
                   \X ((0 - CoordMargin)..(7 + CoordMargin))

SquareInputs == {<<axis_y[f]>> \o str(axis_x[r]) :
                    f \in 1..Len(axis_y), r \in 1..Len(axis_x)}
                \cup {NoCoord}

\* a call of letter_notation(coord): arg is the notation returned, NoCoord
\* for None
LetterNotation(coord) ==
    /\ UNCHANGED <<board, player_turn, castling, en_passant,
                   halfmove_clock, fullmove_number, history, in_check,
                   in_mate>>
    /\ last' = [NoCall EXCEPT !.op = "letter_notation", !.coord = coord,
                              !.arg = letter_notation(coord),
                              !.ret = IF letter_notation(coord) = NoCoord
                                      THEN "None" ELSE "notation"]

\* a call of number_notation(square): coord is the pair returned, NoCoord
\* for None
NumberNotation(square) ==
    /\ UNCHANGED <<board, player_turn, castling, en_passant,
                   halfmove_clock, fullmove_number, history, in_check,
                   in_mate>>
    /\ last' = [NoCall EXCEPT !.op = "number_notation", !.arg = square,
                              !.coord = number_notation(square),
                              !.ret = IF number_notation(square) = NoCoord
                                      THEN "None" ELSE "pair"]

\* a call of self[coord] for a tuple: ret is the abbreviation of the piece
\* returned, None for None
GetItem(coord) ==
    /\ UNCHANGED <<board, player_turn, castling, en_passant,
                   halfmove_clock, fullmove_number, history, in_check,
                   in_mate>>
    /\ last' = [NoCall EXCEPT !.op = "getitem", !.coord = coord,
                              !.ret = getitem_tuple(board, coord).abbreviation]

NextCoord ==
    \/ \E coord \in CoordInputs : LetterNotation(coord)
    \/ \E coord \in CoordInputs : GetItem(coord)
    \/ \E square \in SquareInputs : NumberNotation(square)

SpecCoord == Init /\ [][NextCoord]_vars

(***************************************************************************)
(* Vocabulary of the properties.  In a step, the unprimed variables are    *)
(* the board before the call and last' is the call made.                   *)
(***************************************************************************)
\* the step is a call of move
MoveCalled == last'.op = "move"
\* the step is a call of move that was carried out
MoveDone == last'.op = "move" /\ last'.raised = "none"
\* the occupant of the origin and of the destination before the call
Origin == getitem(board, last'.p1)
Destination == getitem(board, last'.p2)
IsPiece(p) == p # None /\ p # KeyError
IsSquare(coord) == Len(coord) = 2 /\ RANK_REGEX(upper(coord))
IsPawn(p) == p.abbreviation \in {"P", "p"}

\* what a failed call must leave alone
BoardStateUnchanged ==
    UNCHANGED <<board, player_turn, castling, en_passant, halfmove_clock,
                fullmove_number, history, in_check, in_mate>>

\* the king of `color` is attacked once the piece on `coord` has gone to `m`
LeavesKingAttacked(coord, m, color) ==
    TRUE \in is_in_check(_do_move(Self, coord, m), color)

\* the pseudo-legal destinations of the piece on `coord` that leave its own
\* king not attacked
SafeDestinations(coord) ==
    {m \in Range(possible_moves(board, coord)) :
       ~LeavesKingAttacked(coord, m, board[coord].color)}

\* `color` has a move that leaves its king not attacked
HasEscape(color) ==
    \E coord \in DOMAIN board :
        board[coord].color = color /\ SafeDestinations(coord) # {}

CheckmateTexts == {"white is in checkmate!", "black is in checkmate!"}

\* the piece field of the initial position
StartingBoard == load(ClassAttributes, FEN_STARTING).self.board

\* the fields of a serialized state and the ranks of its piece field
Fields(text) == split(text, " ")
Ranks(text) == split(Fields(text)[1], "/")

\* the piece field has a letter that is no piece
HasBadLetter(text) ==
    \E i \in 1..Len(Fields(text)[1]) :
        Fields(text)[1][i] \notin
            DigitSet \cup {"/"} \cup PieceLetters \cup {"P", "N", "B", "R", "Q", "K"}

\* the files of a rank: one for a letter, its value for a digit
Files(rank) == Len(expand(rank))

\* a text decode has to refuse: wrong field count, a rank not summing to 8
\* files, an unrecognized piece letter, or a clock field that is no integer
Malformed(text) ==
    \/ Len(Fields(text)) # 6
    \/ \E r \in 1..Len(Ranks(text)) : Files(Ranks(text)[r]) # 8
    \/ HasBadLetter(text)
    \/ ~int_ok(Fields(text)[5])
    \/ ~int_ok(Fields(text)[6])

\* the squares that hold a king of `color`
Kings(b, color) ==
    {pos \in DOMAIN b : b[pos].abbreviation \in {"K", "k"} /\ b[pos].color = color}

\* a king of `color` stands on a square a piece of the other color can move to
KingAttacked(b, color) ==
    \E pos \in Kings(b, color) :
        \E coord \in DOMAIN b :
            /\ b[coord].color = get_enemy(color)
            /\ pos \in Range(possible_moves(b, coord))

\* the entries (origin, index) of a dict of origin -> list of destinations
\* whose origin holds a piece of one of `kinds`
DestinationsOf(moves, kinds) ==
    {<<coord, i>> \in (DOMAIN moves) \X (1..64) :
        /\ i <= Len(moves[coord])
        /\ kind(getitem(board, coord)) \in kinds}

(***************************************************************************)
(* C1  Turn alternation: after every successful move the active color is   *)
(* the opposite of what it was before the call.                            *)
(***************************************************************************)
C1_TurnAlternation ==
    [][MoveDone =>
         \/ player_turn = "white" /\ player_turn' = "black"
         \/ player_turn = "black" /\ player_turn' = "white"]_vars

\* both colors have moved, the last call being a successful move of black
C1_Witness ==
    /\ last.op = "move" /\ last.raised = "none"
    /\ Len(history) >= 2
    /\ player_turn = "white"

(***************************************************************************)
(* C2  Clock reset, as claimed: after a successful move of a pawn of       *)
(* either color, or a capture, the halfmove clock is 0; after any other    *)
(* successful move it is its previous value plus 1.                        *)
(***************************************************************************)
C2_ClockReset ==
    [][MoveDone =>
         IF IsPawn(Origin) \/ Destination # None
         THEN halfmove_clock' = 0
         ELSE halfmove_clock' = halfmove_clock + 1]_vars

(***************************************************************************)
(* C3  Fullmove counting: a successful move increases the fullmove number  *)
(* by exactly 1 when the mover was black and leaves it unchanged when the  *)
(* mover was white.                                                        *)
(***************************************************************************)
C3_FullmoveCounting ==
    [][MoveDone =>
         /\ Origin.color = "black" => fullmove_number' = fullmove_number + 1
         /\ Origin.color = "white" => fullmove_number' = fullmove_number]_vars

\* black has just moved, for the second time
C3_Witness ==
    /\ last.op = "move" /\ last.raised = "none"
    /\ player_turn = "white"
    /\ fullmove_number = 3

(***************************************************************************)
(* C4  Self-check exclusion, as claimed: for every piece of the side to    *)
(* move, all_legal_piece_moves is exactly the set of its pseudo-legal      *)
(* destinations that leave its own king not attacked, and every element    *)
(* of it is a coordinate.                                                  *)
(***************************************************************************)
C4_SelfCheckExclusion ==
    \A coord \in DOMAIN board :
        board[coord].color = player_turn =>
            \A moves \in all_legal_piece_moves(Self, coord) :
                /\ Range(moves) = SafeDestinations(coord)
                /\ \A m \in Range(moves) : IsSquare(m)

(***************************************************************************)
(* C5  Turn enforcement: a call of move whose origin holds a piece that is *)
(* not of the active color (the destination being a square name) raises    *)
(* NotYourTurn and changes nothing of the board, the active color, the     *)
(* clocks, the history and the check status.                               *)
(***************************************************************************)
C5_TurnEnforcement ==
    [][(/\ MoveCalled
        /\ IsSquare(last'.p2)
        /\ IsPiece(Origin)
        /\ Origin.color # player_turn)
       => last'.raised = "NotYourTurn" /\ BoardStateUnchanged]_vars

\* a piece of the side not to move was tried, in the middle of a game
C5_Witness ==
    /\ last.op = "move" /\ last.raised = "NotYourTurn"
    /\ Len(history) >= 1
    /\ IsPiece(getitem(board, last.p1))
    /\ getitem(board, last.p1).color # player_turn

(***************************************************************************)
(* C6  Illegal destination: a call of move by a piece of the active color  *)
(* to a square that is not one of its safe pseudo-legal destinations       *)
(* raises InvalidMove and changes nothing.                                 *)
(***************************************************************************)
C6_IllegalDestination ==
    [][(/\ MoveCalled
        /\ IsSquare(last'.p2)
        /\ IsPiece(Origin)
        /\ Origin.color = player_turn
        /\ upper(last'.p2) \notin SafeDestinations(upper(last'.p1)))
       => last'.raised = "InvalidMove" /\ BoardStateUnchanged]_vars

\* the destination refused is one the piece could go to, were its king not
\* left attacked
C6_Witness ==
    /\ last.op = "move" /\ last.raised = "InvalidMove"
    /\ upper(last.p2) \in Range(possible_moves(board, upper(last.p1)))

(***************************************************************************)
(* C7  Empty origin, as claimed: a call of move whose origin square has no *)
(* occupant raises InvalidMove and changes nothing.                        *)
(***************************************************************************)
C7_EmptyOrigin ==
    [][(MoveCalled /\ IsSquare(last'.p2) /\ Origin = None)
       => last'.raised = "InvalidMove" /\ BoardStateUnchanged]_vars

(***************************************************************************)
(* C8  Checkmate scenario, as claimed: when the check flag names a side    *)
(* whose king is attacked and which has no move that leaves it not         *)
(* attacked, evaluate_board reports checkmate for that color.              *)
(***************************************************************************)
C8_CheckmateScenario ==
    [][(/\ last'.op = "evaluate_board"
        /\ in_check[2]
        /\ TRUE \in is_in_check(Self, in_check[1])
        /\ ~HasEscape(in_check[1]))
       => /\ last'.ret \in CheckmateTexts
          /\ in_check[1] = "white" => last'.ret = "white is in checkmate!"
          /\ in_check[1] = "black" => last'.ret = "black is in checkmate!"]_vars

(***************************************************************************)
(* C9  No false checkmate: evaluate_board does not report checkmate when   *)
(* the side flagged in check has a move that escapes the check, nor when   *)
(* no side is flagged in check.                                            *)
(***************************************************************************)
C9_NoFalseCheckmate ==
    [][(/\ last'.op = "evaluate_board"
        /\ \/ ~in_check[2]
           \/ in_check[2] /\ HasEscape(in_check[1]))
       => last'.ret \notin CheckmateTexts /\ ~in_mate'[2]]_vars

\* evaluate_board was called with a side in check that can escape
C9_Witness ==
    /\ last.op = "evaluate_board"
    /\ in_check[2]
    /\ TRUE \in is_in_check(Self, in_check[1])
    /\ HasEscape(in_check[1])

(***************************************************************************)
(* C10  Codec round trip: load(export()) on the starting position and on   *)
(* every board reached from it raises nothing and reproduces the occupant  *)
(* of every coordinate, the active color, the castling string, the         *)
(* en-passant field, the halfmove clock and the fullmove number.           *)
(***************************************************************************)
C10_RoundTrip ==
    [][last'.op = "load" =>
         /\ last'.raised = "none"
         /\ board' = board
         /\ player_turn' = player_turn
         /\ castling' = castling
         /\ en_passant' = en_passant
         /\ halfmove_clock' = halfmove_clock
         /\ fullmove_number' = fullmove_number]_vars

\* a board reached by moves, whose halfmove clock takes two digits, was
\* saved and restored
C10_Witness ==
    /\ last.op = "load" /\ last.raised = "none"
    /\ Len(history) >= 2
    /\ halfmove_clock >= 10

(***************************************************************************)
(* C11  Move record format, as claimed: every successful move appends      *)
(* exactly one record to the history: the abbreviation of the moving piece *)
(* (nothing for a pawn of either color), then "x" exactly when the         *)
(* destination was occupied before the move, then the destination square   *)
(* as move writes it.                                                      *)
(***************************************************************************)
C11_MoveRecord ==
    [][MoveDone =>
         history' = Append(history,
                           (IF IsPawn(Origin) THEN <<>>
                            ELSE <<Origin.abbreviation>>)
                           \o (IF Destination # None THEN <<"x">> ELSE <<>>)
                           \o lower(last'.p2))]_vars

(***************************************************************************)
(* C12  Starting position, as claimed: on the initial position             *)
(* all_legal_side_moves("white") holds 20 destinations in all, 16 of them  *)
(* under pawn origins and 4 under knight origins, and neither side is in   *)
(* check.                                                                  *)
(***************************************************************************)
C12_StartingPosition ==
    (board = StartingBoard /\ player_turn = "white") =>
        LET moves == all_legal_side_moves(Self, "white")
        IN  /\ Cardinality(DestinationsOf(moves, PieceLetters)) = 20
            /\ Cardinality(DestinationsOf(moves, {"p"})) = 16
            /\ Cardinality(DestinationsOf(moves, {"n"})) = 4
            /\ TRUE \notin is_in_check(Self, "white")
            /\ TRUE \notin is_in_check(Self, "black")

(***************************************************************************)
(* C13  Malformed state, as claimed: load, on a live board or in the       *)
(* construction of one, of a text with the wrong field count, a rank not   *)
(* summing to 8 files, an unrecognized piece letter or a non-integer clock *)
(* field fails with MalformedState and leaves the piece mapping and the    *)
(* metadata of the board as they were.                                     *)
(***************************************************************************)
C13_MalformedState ==
    [][(last'.op \in {"load", "Board"} /\ last'.arg # NoCoord
        /\ Malformed(last'.arg))
       => last'.raised = "MalformedState" /\ BoardStateUnchanged]_vars

(***************************************************************************)
(* C14  Check status recomputation: after every successful move the stored *)
(* check status is (new active color, TRUE) exactly when the king of the   *)
(* new active color is attacked on the resulting board, and ("", FALSE)    *)
(* otherwise; the color stored is never that of the side that moved.       *)
(***************************************************************************)
C14_CheckStatus ==
    [][MoveDone =>
         /\ in_check' = IF KingAttacked(board', player_turn')
                        THEN <<player_turn', TRUE>> ELSE <<"", FALSE>>
         /\ in_check'[1] # Origin.color]_vars

\* a move has just given check
C14_Witness ==
    /\ last.op = "move" /\ last.raised = "none"
    /\ KingAttacked(board, player_turn)
    /\ in_check = <<player_turn, TRUE>>

(***************************************************************************)
(* C15  Missing king, as claimed: on a board with no king of the color     *)
(* asked for, get_king_position and is_in_check end in an error instead of *)
(* returning an answer.                                                    *)
(***************************************************************************)
C15_MissingKing ==
    [][(/\ last'.op \in {"get_king_position", "is_in_check"}
        /\ last'.color \in {"white", "black"}
        /\ Kings(board, last'.color) = {})
       => last'.raised # "none" /\ last'.ret \notin {"True", "False"}]_vars

(***************************************************************************)
(* C16  Simulation isolation: a call of is_in_check_after_move or of       *)
(* all_legal_piece_moves, whatever its origin and destination, leaves the  *)
(* piece mapping, the active color, the clocks, the castling and           *)
(* en-passant fields, the history and the check status of the live board   *)
(* as they were.                                                           *)
(***************************************************************************)
C16_SimulationIsolation ==
    [][last'.op \in {"is_in_check_after_move", "all_legal_piece_moves"}
       => BoardStateUnchanged]_vars

\* the destinations of a piece were simulated in the middle of a game, and
\* some were found safe and some not
C16_Witness ==
    /\ last.op = "all_legal_piece_moves" /\ last.raised = "none"
    /\ Len(history) >= 1
    /\ NoCoord \in Range(last.moves)
    /\ \E m \in Range(last.moves) : m # NoCoord

(***************************************************************************)
(* C17  Per-instance history, as claimed: a Board built after moves were   *)
(* played on another Board starts with an empty history.                   *)
(***************************************************************************)
C17_PerInstanceHistory ==
    [][(last'.op = "Board" /\ last'.raised = "none") => history' = <<>>]_vars

(***************************************************************************)
(* C18  Coordinate conversion, as claimed: letter_notation of a pair with  *)
(* a component outside 0..7 fails with InvalidCoord, and for a pair within *)
(* bounds number_notation of its letter notation is the pair again.        *)
(***************************************************************************)
C18_CoordinateConversion ==
    [][last'.op = "letter_notation" =>
         IF last'.coord[1] \in 0..7 /\ last'.coord[2] \in 0..7
         THEN /\ last'.raised = "none"
              /\ number_notation(last'.arg) = last'.coord
         ELSE last'.raised = "InvalidCoord"]_vars

(***************************************************************************)
(* C19  King preservation: in every state reached from the starting        *)
(* position by moves, the board holds exactly one white king and exactly   *)
(* one black king and the king of the side not to move is not attacked;    *)
(* no successful move lands on a king.                                     *)
(***************************************************************************)
C19_KingPreservation ==
    /\ [](/\ Cardinality(Kings(board, "white")) = 1
          /\ Cardinality(Kings(board, "black")) = 1
          /\ ~KingAttacked(board, get_enemy(player_turn)))
    /\ [][MoveDone => upper(last'.p2) \notin
                          Kings(board, "white") \cup Kings(board, "black")]_vars

\* white has answered the check of the queen on H4
C19_Witness ==
    /\ last.op = "move" /\ last.raised = "none"
    /\ player_turn = "black"
    /\ getitem(board, Sq("H","4")) = [abbreviation |-> "q", color |-> "black"]
    /\ getitem(board, Sq("F","2")) = None
    /\ \E i \in 1..(Len(history) - 1) : history[i] = <<"q", "h", "4">>
    /\ ~KingAttacked(board, "white")

(***************************************************************************)
(* C20  Move frame: a successful move empties the origin, puts the moved   *)
(* piece on the destination, leaves the occupant of every other square,    *)
(* the castling string and the en-passant field unchanged, stores no None  *)
(* entry, and takes exactly one piece off the board when the destination   *)
(* was occupied and none otherwise.                                        *)
(***************************************************************************)
C20_MoveFrame ==
    [][MoveDone =>
         LET p1 == upper(last'.p1)
             p2 == upper(last'.p2)
         IN  /\ p1 \notin DOMAIN board'
             /\ p2 \in DOMAIN board' /\ board'[p2] = Origin
             /\ DOMAIN board' \ {p1, p2} = DOMAIN board \ {p1, p2}
             /\ \A c \in DOMAIN board \ {p1, p2} : board'[c] = board[c]
             /\ castling' = castling
             /\ en_passant' = en_passant
             /\ \A c \in DOMAIN board' : board'[c] # None
             /\ Cardinality(DOMAIN board') =
                    Cardinality(DOMAIN board)
                        - (IF Destination # None THEN 1 ELSE 0)]_vars

\* a capture has just been made
C20_Witness ==
    /\ last.op = "move" /\ last.raised = "none"
    /\ Cardinality(DOMAIN board) < 32
    /\ "x" \in Range(history[Len(history)])

====
